---- MODULE Spec2Model ----
(***************************************************************************)
(* A model of PhysicsBall (src/src/physics.js) and of the callers of its   *)
(* public fields and methods in src/src/main.js.                           *)
(*                                                                         *)
(* Numbers are fixed-point: the integer n stands for n / Scale, so that    *)
(* 1/60 s, 0.99, 0.98, 0.7, 0.1 and 0.5 are all exact.  A product of two   *)
(* fixed-point numbers is rounded to the nearest unit (MulFix).            *)
(***************************************************************************)
EXTENDS Integers, Sequences, FiniteSets

VARIABLES
    position,                  \* this.mesh.position
    velocity,                  \* this.velocity
    acceleration,              \* this.acceleration
    gravity,                   \* this.gravity
    friction,                  \* this.friction
    airResistance,             \* this.airResistance
    bounciness,                \* this.bounciness
    radius,                    \* this.radius
    showTrail,                 \* this.showTrail
    showVelocity,              \* this.showVelocity
    showAcceleration,          \* this.showAcceleration
    trailPoints,               \* this.trailPoints
    meshVisible,               \* this.mesh.visible
    trailLineVisible,          \* this.trailLine.visible
    velocityArrowVisible,      \* this.velocityArrow.visible
    accelerationArrowVisible,  \* this.accelerationArrow.visible
    isDragging,                \* this.isDragging
    dragPlane,                 \* this.dragPlane (normal, constant)
    dragOffset,                \* this.dragOffset
    previousPosition,          \* this.previousPosition
    controlsEnabled,           \* this.controls.enabled
    event,                     \* history: the last handler that ran, with its argument
    collided,                  \* history: the last update took the ground-collision branch
    sinceGrab,                 \* history: handlers that moved the body since the last grab
    appended,                  \* history: every point pushed on the trail since it was last emptied
    steps,                     \* history: number of handlers run so far
    clicks                     \* history: number of UI events (buttons, sliders) so far

bodyVars == <<position, velocity, acceleration, gravity, friction, airResistance,
              bounciness, radius, showTrail, showVelocity, showAcceleration,
              trailPoints, meshVisible, trailLineVisible, velocityArrowVisible,
              accelerationArrowVisible, isDragging, dragPlane, dragOffset,
              previousPosition, controlsEnabled>>

historyVars == <<event, collided, sinceGrab, appended, steps, clicks>>

vars == <<bodyVars, historyVars>>

----------------------------------------------------------------------------
(* Fixed-point numbers and THREE.Vector3                                    *)

Scale == 60 * 100

RoundDiv(n, d) == (2 * n + d) \div (2 * d)

Abs(a) == IF a < 0 THEN -a ELSE a

\* the product of two fixed-point numbers, RoundDiv(a * b, Scale), with the
\* larger factor split into whole units and a rest so that no intermediate
\* value leaves 32 bits
MulFix(a, b) ==
    LET big == IF Abs(a) >= Abs(b) THEN a ELSE b
        small == IF Abs(a) >= Abs(b) THEN b ELSE a
    IN  (big \div Scale) * small + RoundDiv((big % Scale) * small, Scale)

Vec(a, b, c) == [x |-> a, y |-> b, z |-> c]

Zero == Vec(0, 0, 0)

VecAdd(u, v) == Vec(u.x + v.x, u.y + v.y, u.z + v.z)

VecSub(u, v) == Vec(u.x - v.x, u.y - v.y, u.z - v.z)

\* Vector3.multiplyScalar with a fixed-point scalar
VecScale(u, k) == Vec(MulFix(u.x, k), MulFix(u.y, k), MulFix(u.z, k))

\* Vector3.multiplyScalar with a whole number
VecTimes(u, n) == Vec(u.x * n, u.y * n, u.z * n)

Dot(u, v) == MulFix(u.x, v.x) + MulFix(u.y, v.y) + MulFix(u.z, v.z)

\* Vector3.length() > t, for a fixed-point t >= 0
LongerThan(u, t) ==
    \/ Abs(u.x) > t
    \/ Abs(u.y) > t
    \/ Abs(u.z) > t
    \/ u.x * u.x + u.y * u.y + u.z * u.z > t * t

----------------------------------------------------------------------------
(* Program constants                                                        *)

maxTrailPoints == 50

ThrowAmplification == 10

DragForceFactor == 10

StartPosition == Vec(0, 3 * Scale, 0)

DefaultGravity == -(98 * Scale) \div 10

DefaultFriction == (98 * Scale) \div 100

DefaultAirResistance == (99 * Scale) \div 100

DefaultBounciness == (7 * Scale) \div 10

DefaultRadius == Scale \div 2

RestThreshold == Scale \div 10

IndicatorThreshold == Scale \div 10

----------------------------------------------------------------------------
(* Bounds of the model and the inputs the handlers are tried on             *)

MaxSteps == 4

MaxTrailSteps == 53

MaxTrailClicks == 2

\* a 60 Hz frame
FrameTime == Scale \div 60

\* clock.getDelta(): a 60 Hz frame, and a one-second stall of the render loop
DeltaTimes == {FrameTime, Scale}

\* camera.getWorldDirection(): looking along -z, and straight down
CameraDirections == {Vec(0, 0, -Scale), Vec(0, -Scale, 0)}

\* where on the ball the pointer picks it, relative to the centre
PickOffsets == {Zero, Vec(Scale \div 5, 0, 0)}

\* world points the pointer ray is aimed at during a drag
PointerTargets == {Zero, Vec(Scale, 2 * Scale, Scale)}

\* radius slider values
Radii == {Scale \div 2, Scale}

\* gravity, friction, bounce and air sliders
Gravities == {DefaultGravity, -2 * Scale}

Frictions == {DefaultFriction, Scale \div 2}

Bouncinesses == {DefaultBounciness, Scale}

AirResistances == {DefaultAirResistance, Scale}

----------------------------------------------------------------------------
(* THREE.Plane and THREE.Ray, as far as the handlers use them               *)

\* Plane.setFromNormalAndCoplanarPoint(normal, point)
SetFromNormalAndCoplanarPoint(normal, point) ==
    [normal |-> normal, constant |-> -Dot(point, normal)]

\* the point of `plane` a pointer ray aimed at `target` meets
ProjectPoint(plane, target) ==
    VecSub(target, VecScale(plane.normal, Dot(plane.normal, target) + plane.constant))

\* Ray.intersectPlane(plane, out): writes `out` and returns it when the ray
\* meets the plane; returns null and leaves `out` as it was otherwise
IntersectPlane(meets, plane, target, out) ==
    IF meets THEN ProjectPoint(plane, target) ELSE out

----------------------------------------------------------------------------
(* update(deltaTime): the pieces of the physics step                        *)

\* acceleration.set(0, gravity, 0) plus the drag force
AccelerationOf(v, g, air) ==
    VecAdd(Vec(0, g, 0), VecScale(v, -((Scale - air) * DragForceFactor)))

\* velocity.y += gravity * deltaTime; velocity.multiplyScalar(airResistance)
VelocityStep(v, g, air, deltaTime) ==
    VecScale(Vec(v.x, v.y + MulFix(g, deltaTime), v.z), air)

\* a position step that integrates the velocity of the previous frame
PositionStepExplicit(p, v, deltaTime) == VecAdd(p, VecScale(velocity, deltaTime))

\* mesh.position.add(velocity.clone().multiplyScalar(deltaTime))
PositionStep(p, v, deltaTime) == VecAdd(p, VecScale(v, deltaTime))

\* if (mesh.position.y < radius)
HitsGround(p, r) == p.y < r

\* a clamp that forgets the radius and puts the centre on the ground plane
ClampToFloor(p, r) == Vec(p.x, 0, p.z)

\* mesh.position.y = radius
ClampToGround(p, r) == Vec(p.x, r, p.z)

\* a bounce that damps the vertical velocity without reversing it
BounceKeepsSign(v, b, f) ==
    LET vy == MulFix(v.y, b)
    IN  Vec(MulFix(v.x, f), IF Abs(vy) < RestThreshold THEN 0 ELSE vy, MulFix(v.z, f))

\* a bounce without the rest snap
BounceNoSnap(v, b, f) == Vec(MulFix(v.x, f), MulFix(v.y, -b), MulFix(v.z, f))

\* velocity.y *= -bounciness; x and z *= friction; stop tiny bounces
Bounce(v, b, f) ==
    LET vy == MulFix(v.y, -b)
    IN  Vec(MulFix(v.x, f), IF Abs(vy) < RestThreshold THEN 0 ELSE vy, MulFix(v.z, f))

\* updateTrail() with pop() for shift(): the newest point is dropped at the cap
UpdateTrailPop(show, trail, p) ==
    IF ~show THEN trail
    ELSE LET pushed == Append(trail, p)
         IN  IF Len(pushed) > maxTrailPoints
             THEN SubSeq(pushed, 1, Len(pushed) - 1)
             ELSE pushed

\* updateTrail(): this.trailPoints afterwards
UpdateTrail(show, trail, p) ==
    IF ~show THEN trail
    ELSE LET pushed == Append(trail, p)
         IN  IF Len(pushed) > maxTrailPoints THEN Tail(pushed) ELSE pushed

\* history of updateTrail(): the points pushed so far
Pushed(show, pushedSoFar, p) ==
    IF show THEN Append(pushedSoFar, p) ELSE pushedSoFar

\* updateVisuals(): velocityArrow.visible
VelocityArrowShown(show, v) == show /\ LongerThan(v, IndicatorThreshold)

\* updateVisuals(): accelerationArrow.visible
AccelerationArrowShown(show, a) == show /\ LongerThan(a, IndicatorThreshold)

----------------------------------------------------------------------------
(* The state after construction                                             *)

Init ==
    /\ position = StartPosition
    /\ velocity = Zero
    /\ acceleration = Zero
    /\ gravity = DefaultGravity
    /\ friction = DefaultFriction
    /\ airResistance = DefaultAirResistance
    /\ bounciness = DefaultBounciness
    /\ radius = DefaultRadius
    /\ showTrail = TRUE
    /\ showVelocity = TRUE
    /\ showAcceleration = TRUE
    /\ trailPoints = <<>>
    /\ meshVisible = TRUE
    /\ trailLineVisible = TRUE
    /\ velocityArrowVisible = TRUE
    /\ accelerationArrowVisible = TRUE
    /\ isDragging = FALSE
    /\ dragPlane = [normal |-> Vec(Scale, 0, 0), constant |-> 0]
    /\ dragOffset = Zero
    /\ previousPosition = Zero
    /\ controlsEnabled = TRUE
    /\ event = [op |-> "constructor", arg |-> 0, run |-> 1]
    /\ collided = FALSE
    /\ sinceGrab = {}
    /\ appended = <<>>
    /\ steps = 0
    /\ clicks = 0

----------------------------------------------------------------------------
(* Pointer handlers                                                         *)

\* the handler now running, its argument (or the branch it takes), and how
\* many times in a row it has run
Ev(op, arg) ==
    [op |-> op, arg |-> arg, run |-> IF event.op = op THEN event.run + 1 ELSE 1]

\* onPointerDown that does not stop the body it grabs
onPointerDownKeepsVelocity(hit, direction, pick) ==
    /\ IF hit
       THEN /\ isDragging' = TRUE
            /\ controlsEnabled' = FALSE
            /\ dragPlane' = SetFromNormalAndCoplanarPoint(direction, position)
            /\ dragOffset' = VecSub(IntersectPlane(TRUE,
                                        SetFromNormalAndCoplanarPoint(direction, position),
                                        VecAdd(position, pick), dragOffset),
                                    position)
            /\ previousPosition' = position
            /\ velocity' = velocity
            /\ sinceGrab' = {}
       ELSE UNCHANGED <<isDragging, controlsEnabled, dragPlane, dragOffset,
                        previousPosition, velocity, sinceGrab>>
    /\ event' = Ev("onPointerDown", IF hit THEN 1 ELSE 0)
    /\ steps' = steps + 1
    /\ UNCHANGED <<position, acceleration, gravity, friction, airResistance,
                   bounciness, radius, showTrail, showVelocity, showAcceleration,
                   trailPoints, meshVisible, trailLineVisible, velocityArrowVisible,
                   accelerationArrowVisible, collided, appended, clicks>>

\* onPointerDown(event): `hit` is intersects.length > 0, `direction` the camera's
\* world direction and `pick` the offset from the centre at which the ray
\* meets the drag plane
onPointerDown(hit, direction, pick) ==
    /\ IF hit
       THEN /\ isDragging' = TRUE
            /\ controlsEnabled' = FALSE
            /\ dragPlane' = SetFromNormalAndCoplanarPoint(direction, position)
            /\ dragOffset' = VecSub(IntersectPlane(TRUE,
                                        SetFromNormalAndCoplanarPoint(direction, position),
                                        VecAdd(position, pick), dragOffset),
                                    position)
            /\ previousPosition' = position
            /\ velocity' = Zero
            /\ sinceGrab' = {}
       ELSE UNCHANGED <<isDragging, controlsEnabled, dragPlane, dragOffset,
                        previousPosition, velocity, sinceGrab>>
    /\ event' = Ev("onPointerDown", IF hit THEN 1 ELSE 0)
    /\ steps' = steps + 1
    /\ UNCHANGED <<position, acceleration, gravity, friction, airResistance,
                   bounciness, radius, showTrail, showVelocity, showAcceleration,
                   trailPoints, meshVisible, trailLineVisible, velocityArrowVisible,
                   accelerationArrowVisible, collided, appended, clicks>>

\* onPointerMove that gives the drag up when the ray misses the drag plane
onPointerMoveCancels(meets, target) ==
    /\ IF isDragging
       THEN /\ previousPosition' = position
            /\ position' = IF meets
                           THEN VecSub(IntersectPlane(meets, dragPlane, target, Zero), dragOffset)
                           ELSE position
            /\ isDragging' = meets
            /\ sinceGrab' = sinceGrab \cup {"onPointerMove"}
            /\ event' = Ev("onPointerMove", IF meets THEN 1 ELSE 2)
       ELSE /\ UNCHANGED <<previousPosition, position, sinceGrab, isDragging>>
            /\ event' = Ev("onPointerMove", 0)
    /\ steps' = steps + 1
    /\ UNCHANGED <<velocity, acceleration, gravity, friction, airResistance,
                   bounciness, radius, showTrail, showVelocity, showAcceleration,
                   trailPoints, meshVisible, trailLineVisible, velocityArrowVisible,
                   accelerationArrowVisible, dragPlane, dragOffset,
                   controlsEnabled, collided, appended, clicks>>

\* onPointerMove that snapshots previousPosition after the position write
onPointerMoveLateSnapshot(meets, target) ==
    /\ IF isDragging
       THEN /\ position' = VecSub(IntersectPlane(meets, dragPlane, target, Zero), dragOffset)
            /\ previousPosition' = position'
            /\ sinceGrab' = sinceGrab \cup {"onPointerMove"}
            /\ event' = Ev("onPointerMove", IF meets THEN 1 ELSE 2)
       ELSE /\ UNCHANGED <<previousPosition, position, sinceGrab>>
            /\ event' = Ev("onPointerMove", 0)
    /\ steps' = steps + 1
    /\ UNCHANGED <<velocity, acceleration, gravity, friction, airResistance,
                   bounciness, radius, showTrail, showVelocity, showAcceleration,
                   trailPoints, meshVisible, trailLineVisible, velocityArrowVisible,
                   accelerationArrowVisible, isDragging, dragPlane, dragOffset,
                   controlsEnabled, collided, appended, clicks>>

\* onPointerMove that puts the centre of the body under the pointer
onPointerMoveRecentres(meets, target) ==
    /\ IF isDragging
       THEN /\ previousPosition' = position
            /\ position' = VecSub(IntersectPlane(meets, dragPlane, target, Zero), dragOffset)
            /\ sinceGrab' = sinceGrab \cup {"onPointerMove"}
            /\ dragOffset' = Zero
            /\ event' = Ev("onPointerMove", IF meets THEN 1 ELSE 2)
       ELSE /\ UNCHANGED <<previousPosition, position, sinceGrab, dragOffset>>
            /\ event' = Ev("onPointerMove", 0)
    /\ steps' = steps + 1
    /\ UNCHANGED <<velocity, acceleration, gravity, friction, airResistance,
                   bounciness, radius, showTrail, showVelocity, showAcceleration,
                   trailPoints, meshVisible, trailLineVisible, velocityArrowVisible,
                   accelerationArrowVisible, isDragging, dragPlane,
                   controlsEnabled, collided, appended, clicks>>

\* onPointerMove(event): `meets` is whether the pointer ray meets the drag
\* plane, `target` the world point the ray is aimed at
onPointerMove(meets, target) ==
    /\ IF isDragging
       THEN /\ previousPosition' = position
            /\ position' = VecSub(IntersectPlane(meets, dragPlane, target, Zero), dragOffset)
            /\ sinceGrab' = sinceGrab \cup {"onPointerMove"}
            /\ event' = Ev("onPointerMove", IF meets THEN 1 ELSE 2)
       ELSE /\ UNCHANGED <<previousPosition, position, sinceGrab>>
            /\ event' = Ev("onPointerMove", 0)
    /\ steps' = steps + 1
    /\ UNCHANGED <<velocity, acceleration, gravity, friction, airResistance,
                   bounciness, radius, showTrail, showVelocity, showAcceleration,
                   trailPoints, meshVisible, trailLineVisible, velocityArrowVisible,
                   accelerationArrowVisible, isDragging, dragPlane, dragOffset,
                   controlsEnabled, collided, appended, clicks>>

\* onPointerUp that forgets to unlock the camera
onPointerUpKeepsLock ==
    /\ IF isDragging
       THEN /\ velocity' = VecTimes(VecSub(position, previousPosition), ThrowAmplification)
            /\ isDragging' = FALSE
            /\ event' = Ev("onPointerUp", 1)
       ELSE /\ UNCHANGED <<velocity, isDragging>>
            /\ event' = Ev("onPointerUp", 0)
    /\ steps' = steps + 1
    /\ UNCHANGED <<position, acceleration, gravity, friction, airResistance,
                   bounciness, radius, showTrail, showVelocity, showAcceleration,
                   trailPoints, meshVisible, trailLineVisible, velocityArrowVisible,
                   accelerationArrowVisible, dragPlane, dragOffset, previousPosition,
                   controlsEnabled, collided, sinceGrab, appended, clicks>>

\* onPointerUp()
onPointerUp ==
    /\ IF isDragging
       THEN /\ velocity' = VecTimes(VecSub(position, previousPosition), ThrowAmplification)
            /\ controlsEnabled' = TRUE
            /\ isDragging' = FALSE
            /\ event' = Ev("onPointerUp", 1)
       ELSE /\ UNCHANGED <<velocity, controlsEnabled, isDragging>>
            /\ event' = Ev("onPointerUp", 0)
    /\ steps' = steps + 1
    /\ UNCHANGED <<position, acceleration, gravity, friction, airResistance,
                   bounciness, radius, showTrail, showVelocity, showAcceleration,
                   trailPoints, meshVisible, trailLineVisible, velocityArrowVisible,
                   accelerationArrowVisible, dragPlane, dragOffset, previousPosition,
                   collided, sinceGrab, appended, clicks>>

----------------------------------------------------------------------------
(* The frame                                                                *)

\* update(deltaTime) while dragging: updateVisuals() and return
updateDragging(deltaTime) ==
    /\ UNCHANGED <<position, velocity, acceleration, trailPoints, appended>>
    /\ collided' = FALSE

\* the free update with updateTrail() called before the ground collision
updateFreeTrailsEarly(deltaTime) ==
    LET v1 == VelocityStep(velocity, gravity, airResistance, deltaTime)
        p1 == PositionStep(position, v1, deltaTime)
        hit == HitsGround(p1, radius)
    IN  /\ acceleration' = AccelerationOf(velocity, gravity, airResistance)
        /\ position' = IF hit THEN ClampToGround(p1, radius) ELSE p1
        /\ velocity' = IF hit THEN Bounce(v1, bounciness, friction) ELSE v1
        /\ collided' = hit
        /\ trailPoints' = UpdateTrail(showTrail, trailPoints, p1)
        /\ appended' = Pushed(showTrail, appended, p1)

\* update(deltaTime) otherwise: integrate, collide, updateTrail(), updateVisuals()
updateFree(deltaTime) ==
    LET v1 == VelocityStep(velocity, gravity, airResistance, deltaTime)
        p1 == PositionStep(position, v1, deltaTime)
        hit == HitsGround(p1, radius)
    IN  /\ acceleration' = AccelerationOf(velocity, gravity, airResistance)
        /\ position' = IF hit THEN ClampToGround(p1, radius) ELSE p1
        /\ velocity' = IF hit THEN Bounce(v1, bounciness, friction) ELSE v1
        /\ collided' = hit
        /\ trailPoints' = UpdateTrail(showTrail, trailPoints, position')
        /\ appended' = Pushed(showTrail, appended, position')

\* update that integrates even while the body is held
updateUngated(deltaTime) ==
    /\ updateFree(deltaTime)
    /\ velocityArrowVisible' = VelocityArrowShown(showVelocity, velocity')
    /\ accelerationArrowVisible' = AccelerationArrowShown(showAcceleration, acceleration')
    /\ event' = Ev("update", deltaTime)
    /\ steps' = steps + 1
    /\ UNCHANGED <<gravity, friction, airResistance, bounciness, radius, showTrail,
                   showVelocity, showAcceleration, meshVisible, trailLineVisible,
                   isDragging, dragPlane, dragOffset, previousPosition,
                   controlsEnabled, sinceGrab, clicks>>

\* update(deltaTime)
update(deltaTime) ==
    /\ IF isDragging THEN updateDragging(deltaTime) ELSE updateFree(deltaTime)
    /\ velocityArrowVisible' = VelocityArrowShown(showVelocity, velocity')
    /\ accelerationArrowVisible' = AccelerationArrowShown(showAcceleration, acceleration')
    /\ event' = Ev("update", deltaTime)
    /\ steps' = steps + 1
    /\ UNCHANGED <<gravity, friction, airResistance, bounciness, radius, showTrail,
                   showVelocity, showAcceleration, meshVisible, trailLineVisible,
                   isDragging, dragPlane, dragOffset, previousPosition,
                   controlsEnabled, sinceGrab, clicks>>

----------------------------------------------------------------------------
(* Buttons and sliders (src/src/main.js) and the methods they call          *)

Moved(op) == IF isDragging THEN sinceGrab \cup {op} ELSE sinceGrab

\* reset that does not empty the trail before updateTrail()
resetKeepsTrail ==
    /\ position' = StartPosition
    /\ velocity' = Zero
    /\ acceleration' = Vec(0, gravity, 0)
    /\ trailPoints' = UpdateTrail(showTrail, trailPoints, position')
    /\ appended' = Pushed(showTrail, appended, position')
    /\ sinceGrab' = Moved("reset")
    /\ event' = Ev("reset", 0)
    /\ clicks' = clicks + 1
    /\ steps' = steps + 1
    /\ UNCHANGED <<gravity, friction, airResistance, bounciness, radius, showTrail,
                   showVelocity, showAcceleration, meshVisible, trailLineVisible,
                   velocityArrowVisible, accelerationArrowVisible, isDragging,
                   dragPlane, dragOffset, previousPosition, controlsEnabled,
                   collided>>

\* reset that reseeds the trail before it moves the body
resetSeedsFirst ==
    /\ position' = StartPosition
    /\ velocity' = Zero
    /\ acceleration' = Vec(0, gravity, 0)
    /\ trailPoints' = UpdateTrail(showTrail, <<>>, position)
    /\ appended' = Pushed(showTrail, <<>>, position)
    /\ sinceGrab' = Moved("reset")
    /\ event' = Ev("reset", 0)
    /\ clicks' = clicks + 1
    /\ steps' = steps + 1
    /\ UNCHANGED <<gravity, friction, airResistance, bounciness, radius, showTrail,
                   showVelocity, showAcceleration, meshVisible, trailLineVisible,
                   velocityArrowVisible, accelerationArrowVisible, isDragging,
                   dragPlane, dragOffset, previousPosition, controlsEnabled,
                   collided>>

\* reset()
reset ==
    /\ position' = StartPosition
    /\ velocity' = Zero
    /\ acceleration' = Vec(0, gravity, 0)
    /\ trailPoints' = UpdateTrail(showTrail, <<>>, position')
    /\ appended' = Pushed(showTrail, <<>>, position')
    /\ sinceGrab' = Moved("reset")
    /\ event' = Ev("reset", 0)
    /\ clicks' = clicks + 1
    /\ steps' = steps + 1
    /\ UNCHANGED <<gravity, friction, airResistance, bounciness, radius, showTrail,
                   showVelocity, showAcceleration, meshVisible, trailLineVisible,
                   velocityArrowVisible, accelerationArrowVisible, isDragging,
                   dragPlane, dragOffset, previousPosition, controlsEnabled,
                   collided>>

\* createBall(): the position of a new THREE.Mesh
NewMeshPosition == Zero

\* setRadius(newRadius): the position of the mesh it leaves in the scene;
\* currentPos is cloned from the mesh createBall() has just returned
SetRadiusPosition(newRadius) ==
    LET currentPos == NewMeshPosition
    IN  IF currentPos.y < newRadius THEN ClampToGround(currentPos, newRadius)
        ELSE currentPos

\* setRadius(newRadius)
setRadius(newRadius) ==
    /\ radius' = newRadius
    /\ position' = SetRadiusPosition(newRadius)
    /\ meshVisible' = TRUE
    /\ sinceGrab' = Moved("setRadius")
    /\ event' = Ev("setRadius", newRadius)
    /\ clicks' = clicks + 1
    /\ steps' = steps + 1
    /\ UNCHANGED <<velocity, acceleration, gravity, friction, airResistance,
                   bounciness, showTrail, showVelocity, showAcceleration,
                   trailPoints, trailLineVisible, velocityArrowVisible,
                   accelerationArrowVisible, isDragging, dragPlane, dragOffset,
                   previousPosition, controlsEnabled, collided, appended>>

\* toggleTrail()
toggleTrail ==
    /\ showTrail' = ~showTrail
    /\ trailLineVisible' = showTrail'
    /\ event' = Ev("toggleTrail", 0)
    /\ clicks' = clicks + 1
    /\ steps' = steps + 1
    /\ UNCHANGED <<position, velocity, acceleration, gravity, friction,
                   airResistance, bounciness, radius, showVelocity,
                   showAcceleration, trailPoints, meshVisible,
                   velocityArrowVisible, accelerationArrowVisible, isDragging,
                   dragPlane, dragOffset, previousPosition, controlsEnabled,
                   collided, sinceGrab, appended>>

\* toggleVelocity()
toggleVelocity ==
    /\ showVelocity' = ~showVelocity
    /\ event' = Ev("toggleVelocity", 0)
    /\ clicks' = clicks + 1
    /\ steps' = steps + 1
    /\ UNCHANGED <<position, velocity, acceleration, gravity, friction,
                   airResistance, bounciness, radius, showTrail, showAcceleration,
                   trailPoints, meshVisible, trailLineVisible,
                   velocityArrowVisible, accelerationArrowVisible, isDragging,
                   dragPlane, dragOffset, previousPosition, controlsEnabled,
                   collided, sinceGrab, appended>>

\* toggleAcceleration()
toggleAcceleration ==
    /\ showAcceleration' = ~showAcceleration
    /\ event' = Ev("toggleAcceleration", 0)
    /\ clicks' = clicks + 1
    /\ steps' = steps + 1
    /\ UNCHANGED <<position, velocity, acceleration, gravity, friction,
                   airResistance, bounciness, radius, showTrail, showVelocity,
                   trailPoints, meshVisible, trailLineVisible,
                   velocityArrowVisible, accelerationArrowVisible, isDragging,
                   dragPlane, dragOffset, previousPosition, controlsEnabled,
                   collided, sinceGrab, appended>>

\* toggle(): the only caller of the visibility methods in main.js
toggle ==
    /\ meshVisible' = ~meshVisible
    /\ IF ~meshVisible'
       THEN /\ trailLineVisible' = FALSE
            /\ velocityArrowVisible' = FALSE
            /\ accelerationArrowVisible' = FALSE
       ELSE UNCHANGED <<trailLineVisible, velocityArrowVisible,
                        accelerationArrowVisible>>
    /\ event' = Ev("toggle", 0)
    /\ clicks' = clicks + 1
    /\ steps' = steps + 1
    /\ UNCHANGED <<position, velocity, acceleration, gravity, friction,
                   airResistance, bounciness, radius, showTrail, showVelocity,
                   showAcceleration, trailPoints, isDragging, dragPlane,
                   dragOffset, previousPosition, controlsEnabled, collided,
                   sinceGrab, appended>>

\* show()
show ==
    /\ meshVisible' = TRUE
    /\ event' = Ev("show", 0)
    /\ clicks' = clicks + 1
    /\ steps' = steps + 1
    /\ UNCHANGED <<position, velocity, acceleration, gravity, friction,
                   airResistance, bounciness, radius, showTrail, showVelocity,
                   showAcceleration, trailPoints, trailLineVisible,
                   velocityArrowVisible, accelerationArrowVisible, isDragging,
                   dragPlane, dragOffset, previousPosition, controlsEnabled,
                   collided, sinceGrab, appended>>

\* hide()
hide ==
    /\ meshVisible' = FALSE
    /\ trailLineVisible' = FALSE
    /\ velocityArrowVisible' = FALSE
    /\ accelerationArrowVisible' = FALSE
    /\ event' = Ev("hide", 0)
    /\ clicks' = clicks + 1
    /\ steps' = steps + 1
    /\ UNCHANGED <<position, velocity, acceleration, gravity, friction,
                   airResistance, bounciness, radius, showTrail, showVelocity,
                   showAcceleration, trailPoints, isDragging, dragPlane,
                   dragOffset, previousPosition, controlsEnabled, collided,
                   sinceGrab, appended>>

\* the gravity, friction, bounce and air sliders write the fields directly
setTunables(g, f, b, air) ==
    /\ gravity' = g
    /\ friction' = f
    /\ bounciness' = b
    /\ airResistance' = air
    /\ event' = Ev("slider", 0)
    /\ clicks' = clicks + 1
    /\ steps' = steps + 1
    /\ UNCHANGED <<position, velocity, acceleration, radius, showTrail,
                   showVelocity, showAcceleration, trailPoints, meshVisible,
                   trailLineVisible, velocityArrowVisible,
                   accelerationArrowVisible, isDragging, dragPlane, dragOffset,
                   previousPosition, controlsEnabled, collided, sinceGrab,
                   appended>>

----------------------------------------------------------------------------
(* The specification: pointer events, frames and UI events in any order     *)

PointerDown ==
    /\ steps < MaxSteps
    /\ \E hit \in BOOLEAN, direction \in CameraDirections, pick \in PickOffsets :
           /\ hit \/ (direction = Vec(0, 0, -Scale) /\ pick = Zero)
           /\ onPointerDown(hit, direction, pick)

PointerMove ==
    /\ steps < MaxSteps
    /\ \E meets \in BOOLEAN, target \in PointerTargets :
           /\ meets \/ target = Zero
           /\ onPointerMove(meets, target)

PointerUp == steps < MaxSteps /\ onPointerUp

Frame == steps < MaxSteps /\ \E deltaTime \in DeltaTimes : update(deltaTime)

Reset == steps < MaxSteps /\ reset

SetRadius == steps < MaxSteps /\ \E newRadius \in Radii : setRadius(newRadius)

ToggleTrail == steps < MaxSteps /\ toggleTrail

ToggleVelocity == steps < MaxSteps /\ toggleVelocity

ToggleAcceleration == steps < MaxSteps /\ toggleAcceleration

Toggle == steps < MaxSteps /\ toggle

GravitySlider ==
    /\ steps < MaxSteps
    /\ \E g \in Gravities : setTunables(g, friction, bounciness, airResistance)

FrictionSlider ==
    /\ steps < MaxSteps
    /\ \E f \in Frictions : setTunables(gravity, f, bounciness, airResistance)

BounceSlider ==
    /\ steps < MaxSteps
    /\ \E b \in Bouncinesses : setTunables(gravity, friction, b, airResistance)

AirSlider ==
    /\ steps < MaxSteps
    /\ \E air \in AirResistances : setTunables(gravity, friction, bounciness, air)

Next ==
    \/ PointerDown
    \/ PointerMove
    \/ PointerUp
    \/ Frame
    \/ Reset
    \/ SetRadius
    \/ ToggleTrail
    \/ ToggleVelocity
    \/ ToggleAcceleration
    \/ Toggle
    \/ GravitySlider
    \/ FrictionSlider
    \/ BounceSlider
    \/ AirSlider

Spec == Init /\ [][Next]_vars

----------------------------------------------------------------------------
(* The trail over a long run: 60 Hz frames, with a few clicks on the trail  *)
(* and reset buttons                                                        *)

TrailFrame == steps < MaxTrailSteps /\ update(FrameTime)

TrailToggle == steps < MaxTrailSteps /\ clicks < MaxTrailClicks /\ toggleTrail

TrailReset == steps < MaxTrailSteps /\ clicks < MaxTrailClicks /\ reset

NextTrail == TrailFrame \/ TrailToggle \/ TrailReset

SpecTrail == Init /\ [][NextTrail]_vars

----------------------------------------------------------------------------
(* The untouched ball: the render loop alone, at 60 Hz, from construction   *)

MaxRestFrames == 170

RestFrame == steps < MaxRestFrames /\ update(FrameTime)

NextRest == RestFrame

SpecRest == Init /\ [][NextRest]_vars

----------------------------------------------------------------------------
(* A drag near the ground plane and the frames after its release            *)

MaxThrowSteps == 5

\* hit points of the pointer ray on the drag plane z = 0: the origin, and a
\* quarter of a unit above it
ThrowTargets == {Zero, Vec(0, Scale \div 4, 0)}

ThrowDown ==
    /\ steps < MaxThrowSteps
    /\ \E hit \in BOOLEAN, pick \in PickOffsets :
           /\ hit \/ pick = Zero
           /\ onPointerDown(hit, Vec(0, 0, -Scale), pick)

ThrowMove ==
    /\ steps < MaxThrowSteps
    /\ \E target \in ThrowTargets : onPointerMove(TRUE, target)

ThrowUp == steps < MaxThrowSteps /\ onPointerUp

ThrowFrame == steps < MaxThrowSteps /\ \E deltaTime \in DeltaTimes : update(deltaTime)

NextThrow == ThrowDown \/ ThrowMove \/ ThrowUp \/ ThrowFrame

SpecThrow == Init /\ [][NextThrow]_vars

----------------------------------------------------------------------------
(* The visibility methods, the display toggles and the render loop          *)

MaxVisibleSteps == 4

VisibleShow == steps < MaxVisibleSteps /\ show

VisibleHide == steps < MaxVisibleSteps /\ hide

VisibleToggle == steps < MaxVisibleSteps /\ toggle

VisibleToggleTrail == steps < MaxVisibleSteps /\ toggleTrail

VisibleToggleVelocity == steps < MaxVisibleSteps /\ toggleVelocity

VisibleToggleAcceleration == steps < MaxVisibleSteps /\ toggleAcceleration

VisibleFrame == steps < MaxVisibleSteps /\ \E deltaTime \in DeltaTimes : update(deltaTime)

NextVisible ==
    \/ VisibleShow
    \/ VisibleHide
    \/ VisibleToggle
    \/ VisibleToggleTrail
    \/ VisibleToggleVelocity
    \/ VisibleToggleAcceleration
    \/ VisibleFrame

SpecVisible == Init /\ [][NextVisible]_vars

----------------------------------------------------------------------------
(* The claims                                                               *)

Released == event.op = "onPointerUp" /\ event.arg = 1

\* C1 as stated: immediately after any update, dragging or not,
\* position.y >= radius.
C1_GroundAfterAnyUpdate == event.op = "update" => position.y >= radius

\* C1 as amended: immediately after any update that ran with isDragging
\* false, position.y >= radius.
C1_GroundAfterFreeUpdate ==
    (event.op = "update" /\ ~isDragging) => position.y >= radius

\* C1 witness: a body dragged under the ground plane and thrown is put back
\* on the ground by the next update.
C1_Witness ==
    /\ event.op = "update"
    /\ ~isDragging
    /\ collided
    /\ "onPointerMove" \in sinceGrab
    /\ position.y = radius

\* C2: while isDragging is true, an update, for any deltaTime and however
\* many came before it, leaves position and velocity unchanged.
C2_DragIsolatesPhysics ==
    [][(isDragging /\ event'.op = "update")
           => (position' = position /\ velocity' = velocity)]_vars

\* C2 witness: two updates in a row have run on a body held under the ground
\* plane.
C2_Witness ==
    /\ isDragging
    /\ event.op = "update"
    /\ event.run >= 2
    /\ position.y < radius

\* C3: isDragging turns true only in a pointer-down that hits the body and
\* false only in a pointer-up; no other handler changes it.
C3_DragStateMachine ==
    [][/\ (~isDragging /\ isDragging') => (event'.op = "onPointerDown" /\ event'.arg = 1)
       /\ (isDragging /\ ~isDragging') => event'.op = "onPointerUp"
       /\ (event'.op \notin {"onPointerDown", "onPointerUp"}) => isDragging' = isDragging
       /\ (event'.op = "onPointerDown" /\ event'.arg = 0) => isDragging' = isDragging]_vars

\* C3 witness: a drag with a pointer-move in it has been ended by a
\* pointer-up.
C3_Witness ==
    /\ Released
    /\ ~isDragging
    /\ "onPointerMove" \in sinceGrab

\* C4: controls.enabled is the negation of isDragging in every state.
C4_CameraLock == controlsEnabled = ~isDragging

\* C4 witness: the camera is unlocked again after a release.
C4_Witness == Released /\ controlsEnabled /\ ~isDragging

\* C5 as stated: after a release with no pointer-move since the grab,
\* velocity is (0,0,0).
C5_ThrowWithNoMove ==
    (Released /\ "onPointerMove" \notin sinceGrab) => velocity = Zero

\* C6: a hitting pointer-down and a pointer-move of a drag each snapshot the
\* position they find into previousPosition, nothing else writes it, and a
\* releasing pointer-up sets velocity to (position - previousPosition) * 10.
C6_ThrowVelocity ==
    [][/\ (event'.op = "onPointerDown" /\ event'.arg = 1) => previousPosition' = position
       /\ (event'.op = "onPointerMove" /\ event'.arg # 0) => previousPosition' = position
       /\ (event'.op = "onPointerUp" /\ event'.arg = 1)
              => /\ velocity' = VecTimes(VecSub(position, previousPosition), 10)
                 /\ previousPosition' = previousPosition
       /\ (event'.op \notin {"onPointerDown", "onPointerMove", "onPointerUp"})
              => previousPosition' = previousPosition]_vars

\* C6 witness: a body that was moved during the drag has been thrown.
C6_Witness ==
    /\ Released
    /\ "onPointerMove" \in sinceGrab
    /\ velocity # Zero
    /\ velocity = VecTimes(VecSub(position, previousPosition), 10)

\* C7: trailPoints never holds more than 50 points, and it is always the last
\* min(n, 50) of the n points pushed since the trail was emptied, in push
\* order: past the cap each push drops exactly the oldest point.
C7_TrailBound ==
    /\ Len(trailPoints) <= 50
    /\ Len(trailPoints) = IF Len(appended) < 50 THEN Len(appended) ELSE 50
    /\ \A i \in 1..Len(trailPoints) :
           trailPoints[i] = appended[Len(appended) - Len(trailPoints) + i]

\* C7 witness: after 51 pushes the trail holds 50 points, the oldest of them
\* the second point pushed.
C7_Witness ==
    /\ Len(appended) = 51
    /\ Len(trailPoints) = 50
    /\ trailPoints[1] = appended[2]
    /\ appended[1] # appended[2]

\* C8: a reset that follows a reset changes nothing of the body's state.
C8_ResetIdempotent ==
    [][(event.op = "reset" /\ event'.op = "reset") => UNCHANGED bodyVars]_vars

\* C8 witness: reset has run twice in a row, with the trail shown.
C8_Witness == event.op = "reset" /\ event.run >= 2 /\ showTrail

\* C9 as stated: after reset, position = (0,3,0), velocity = (0,0,0) and
\* trailPoints = <<position>>, whatever showTrail is.
C9_ResetReseedsAlways ==
    event.op = "reset"
        => /\ position = Vec(0, 3 * Scale, 0)
           /\ velocity = Zero
           /\ trailPoints = <<position>>

\* C9 as amended: after reset, position = (0,3,0), velocity = (0,0,0), and
\* trailPoints is <<position>> when showTrail is true and empty when it is
\* false.
C9_ResetRestoresDefaults ==
    event.op = "reset"
        => /\ position = Vec(0, 3 * Scale, 0)
           /\ velocity = Zero
           /\ trailPoints = IF showTrail THEN <<position>> ELSE <<>>

\* C9 witness: reset has run on a held body with the trail switched off.
C9_Witness ==
    /\ event.op = "reset"
    /\ ~showTrail
    /\ isDragging
    /\ trailPoints = <<>>

\* C10 as stated: setRadius(r) sets radius to r, keeps position.x and
\* position.z, and keeps position.y unless it was below r, in which case
\* position.y becomes r.
C10_SetRadiusKeepsCentre ==
    [][event'.op = "setRadius"
           => /\ radius' = event'.arg
              /\ position'.x = position.x
              /\ position'.z = position.z
              /\ position'.y = IF position.y >= radius' THEN position.y ELSE radius']_vars

\* the velocity and position an update computes before it looks at the ground
Incoming(deltaTime) ==
    LET v == Vec(MulFix(velocity.x, airResistance),
                 MulFix(velocity.y + MulFix(gravity, deltaTime), airResistance),
                 MulFix(velocity.z, airResistance))
    IN  [v |-> v,
         p |-> Vec(position.x + MulFix(v.x, deltaTime),
                   position.y + MulFix(v.y, deltaTime),
                   position.z + MulFix(v.z, deltaTime))]

FreeUpdateStep == event'.op = "update" /\ ~isDragging

\* C11 as stated: a non-dragging update whose integrated position.y is below
\* radius clamps position.y to radius, sets velocity.y to -bounciness times
\* the incoming velocity.y and multiplies velocity.x and velocity.z by
\* friction; without ground contact none of the three is applied.
C11_BounceResponse ==
    [][FreeUpdateStep =>
           LET in == Incoming(event'.arg)
           IN  IF in.p.y < radius
               THEN /\ position' = Vec(in.p.x, radius, in.p.z)
                    /\ velocity'.y = MulFix(-bounciness, in.v.y)
                    /\ velocity'.x = MulFix(friction, in.v.x)
                    /\ velocity'.z = MulFix(friction, in.v.z)
               ELSE position' = in.p /\ velocity' = in.v]_vars

\* C11 as amended: as stated, except that the outgoing velocity.y is exactly
\* 0 when -bounciness times the incoming velocity.y has magnitude below 0.1.
C11_BounceResponseWithSnap ==
    [][FreeUpdateStep =>
           LET in == Incoming(event'.arg)
               out == MulFix(-bounciness, in.v.y)
           IN  IF in.p.y < radius
               THEN /\ position' = Vec(in.p.x, radius, in.p.z)
                    /\ velocity'.y = IF Abs(out) < Scale \div 10 THEN 0 ELSE out
                    /\ velocity'.x = MulFix(friction, in.v.x)
                    /\ velocity'.z = MulFix(friction, in.v.z)
               ELSE position' = in.p /\ velocity' = in.v]_vars

\* C11 witness: a thrown body has bounced off the ground, moving sideways.
C11_Witness ==
    /\ event.op = "update"
    /\ ~isDragging
    /\ collided
    /\ position.y = radius
    /\ velocity.y > 0
    /\ velocity.x # 0

\* C12: after an update that took the ground-collision branch, velocity.y is
\* exactly 0 or has magnitude at least 0.1.
C12_RestSnap ==
    (event.op = "update" /\ collided)
        => (velocity.y = 0 \/ Abs(velocity.y) >= Scale \div 10)

\* C12 witness: a collision has left velocity.y at exactly 0 on a body that
\* gravity pulls down.
C12_Witness ==
    /\ event.op = "update"
    /\ collided
    /\ velocity.y = 0
    /\ gravity < 0
    /\ bounciness > 0

\* C13: a non-dragging update without ground contact sets velocity to
\* (velocity + (0, gravity * deltaTime, 0)) * airResistance on all three axes
\* and then position to position + velocity' * deltaTime.
C13_FreeFlightStep ==
    [][(FreeUpdateStep /\ ~collided') =>
           /\ velocity' = VecScale(VecAdd(velocity, Vec(0, MulFix(gravity, event'.arg), 0)),
                                   airResistance)
           /\ position' = VecAdd(position, VecScale(velocity', event'.arg))]_vars

\* C13 witness: a thrown body is in free flight, moving on both axes.
C13_Witness ==
    /\ event.op = "update"
    /\ ~isDragging
    /\ ~collided
    /\ velocity.x # 0
    /\ velocity.y # 0
    /\ position.y > radius

\* C14 as stated: a pointer-move of a drag whose ray does not meet the drag
\* plane leaves position as it was.
C14_DegenerateRayIsNoUpdate ==
    [][(event'.op = "onPointerMove" /\ event'.arg = 2) => position' = position]_vars

\* C15: velocity is (0,0,0) in every state with isDragging true.
C15_NoVelocityDuringDrag == isDragging => velocity = Zero

\* C15 witness: a body grabbed while it was moving has been moved by the
\* pointer and is still held.
C15_Witness ==
    /\ isDragging
    /\ "onPointerMove" \in sinceGrab
    /\ trailPoints # <<>>
    /\ velocity = Zero

\* C16 as stated: from the grab to the pointer-up no handler changes
\* dragOffset or the drag plane.
C16_DragScratchFixed ==
    [][(isDragging /\ isDragging')
           => (dragOffset' = dragOffset /\ dragPlane' = dragPlane)]_vars

\* C16 as amended: during a drag only a pointer-down that hits the body
\* changes dragOffset or the drag plane.
C16_DragScratchFixedButForGrab ==
    [][(isDragging /\ ~(event'.op = "onPointerDown" /\ event'.arg = 1))
           => (dragOffset' = dragOffset /\ dragPlane' = dragPlane)]_vars

\* C16 witness: a body picked off-centre has been moved and a frame has run.
C16_Witness ==
    /\ isDragging
    /\ event.op = "update"
    /\ "onPointerMove" \in sinceGrab
    /\ dragOffset # Zero

\* C17: an update pushes its final position on the trail (dropping the oldest
\* point at the cap) when isDragging is false and showTrail is true, and
\* leaves trailPoints alone otherwise; pointer events leave trailPoints alone.
C17_TrailSamplingGated ==
    [][/\ (event'.op = "update" /\ ~isDragging /\ showTrail)
              => trailPoints' = IF Len(trailPoints) < 50
                                THEN Append(trailPoints, position')
                                ELSE Append(Tail(trailPoints), position')
       /\ (event'.op = "update" /\ (isDragging \/ ~showTrail))
              => trailPoints' = trailPoints
       /\ (event'.op \in {"onPointerDown", "onPointerMove", "onPointerUp"})
              => trailPoints' = trailPoints]_vars

\* C17 witness: a body dragged under the ground and thrown has one point on
\* its trail, the clamped position of the one free frame.
C17_Witness ==
    /\ event.op = "update"
    /\ ~isDragging
    /\ showTrail
    /\ collided
    /\ "onPointerMove" \in sinceGrab
    /\ trailPoints = <<position>>

\* C18 as stated, its lasting part: once the untouched ball lies on the ground
\* with velocity.y = 0, velocity.y is 0 after every later update.
C18_RestIsKept ==
    [][(event'.op = "update" /\ ~isDragging /\ position.y = radius /\ velocity.y = 0)
           => velocity'.y = 0]_vars

\* the rest state of C18 is reached by the untouched ball
C18_RestReached ==
    /\ event.op = "update"
    /\ collided
    /\ position.y = radius
    /\ velocity.y = 0

\* C19 as stated: after an update that took the ground-collision branch
\* velocity.y is not negative.
C19_NoDownwardAfterContact ==
    (event.op = "update" /\ collided) => velocity.y >= 0

\* C20 as stated: while the body is not visible, the trail line, the velocity
\* indicator and the acceleration indicator are not visible either.
C20_HiddenStaysHidden ==
    ~meshVisible =>
        (~trailLineVisible /\ ~velocityArrowVisible /\ ~accelerationArrowVisible)

====
